---- MODULE Spec2Model ----
(***************************************************************************)
(* Model of examples/compare_outputs.py: the harness that runs each test   *)
(* prompt through the in-process Python generator (generate_python) and    *)
(* the out-of-process Ruby generator (generate_ruby) and reports whether   *)
(* the two outputs share a prefix longer than the prompt.                  *)
(*                                                                         *)
(* Text is a sequence of character codes.  The Python value None is the    *)
(* one-element tuple <<-1>>, which no text can equal; a local that has not *)
(* been assigned yet is <<-2>>.                                            *)
(***************************************************************************)
EXTENDS Integers, Sequences, FiniteSets, TLC

VARIABLES
    pc,             \* position of the single thread of control
    i,              \* enumerate index of the prompt being processed (0 before the loop)
    python_output,  \* local of compare_outputs (line 121)
    ruby_output,    \* local of compare_outputs (line 130)
    common_prefix,  \* local of compare_outputs (line 140)
    ckpt,           \* what checkpoint_path.exists() answered in the current call
    calls,          \* collaborators called by the current generate_python call
    children,       \* number of live ruby child processes
    elapsed,        \* time units the current subprocess.run has waited
    result,         \* the CompletedProcess bound at line 84
    diag,           \* what generate_ruby printed for diagnostics in the current call
    report,         \* what the analysis block printed for the current prompt
    exitCode,       \* process exit status, -1 while running
    pyAttempted,    \* indices of prompts for which generate_python was called
    rbAttempted,    \* indices of prompts for which generate_ruby was called
    aOutcome,       \* how the current generate_python call ended
    bOutcome,       \* how the current generate_ruby call ended
    pyFor,          \* index of the prompt whose call assigned python_output
    rbFor,          \* index of the prompt whose call assigned ruby_output
    interrupted     \* a KeyboardInterrupt has been delivered

vars == <<pc, i, python_output, ruby_output, common_prefix, ckpt, calls,
          children, elapsed, result, diag, report, exitCode, pyAttempted,
          rbAttempted, aOutcome, bOutcome, pyFor, rbFor, interrupted>>

----------------------------------------------------------------------------
(* Values *)

None == <<-1>>

Unbound == <<-2>>

\* Longest continuation, in characters, that a generator appends.
MaxGen == 1

\* timeout=60 of subprocess.run
Timeout == 60

\* "Once upon a time", "The meaning of life is", "Hello, how are you?"
test_prompts ==
    << <<79, 110, 99, 101, 32, 117, 112, 111, 110, 32, 97, 32, 116, 105, 109, 101>>,
       <<84, 104, 101, 32, 109, 101, 97, 110, 105, 110, 103, 32, 111, 102, 32, 108,
         105, 102, 101, 32, 105, 115>>,
       <<72, 101, 108, 108, 111, 44, 32, 104, 111, 119, 32, 97, 114, 101, 32, 121,
         111, 117, 63>> >>

NumPrompts == Len(test_prompts)

\* Characters a generator may append: "a" and the space.
GenChars == {97, 32}

\* Characters str.strip() removes.
Whitespace == {9, 10, 11, 12, 13, 28, 29, 30, 31, 32}

Continuations == UNION {[1..n -> GenChars] : n \in 0..MaxGen}

\* Texts a generator may produce for prompt p: a continuation, with or
\* without the prompt echoed in front of it.
GenTexts(p) == {e \o c : e \in {<<>>, p}, c \in Continuations}

\* What the ruby child may have written to its standard output: nothing, or
\* a text followed by the newline that puts appends.
Stdouts(p) == {<<>>} \cup {t \o <<10>> : t \in GenTexts(p)}

\* What the ruby child may have written to its error stream: "" or "E".
Stderrs == {<<>>, <<69>>}

ReturnCodes == {0, 1, 2}

NoResult == [returncode |-> -1, stdout |-> <<>>, stderr |-> <<>>]

NoReport == [verdict |-> "none", pyLen |-> -1, rbLen |-> -1]

----------------------------------------------------------------------------
(* Pure functions *)

SetMin(S) == CHOOSE x \in S : \A y \in S : x <= y

SetMax(S) == CHOOSE x \in S : \A y \in S : x >= y

\* Python truthiness of a str-or-None value: None and "" are false.
Truthy(x) == x # None /\ x # <<>>

\* str.strip()
Strip(s) ==
    LET keep == {k \in 1..Len(s) : s[k] \notin Whitespace}
    IN  IF keep = {} THEN <<>> ELSE SubSeq(s, SetMin(keep), SetMax(keep))

\* s < t in Python's ordering of strings
StrLess(s, t) ==
    \E k \in 1..(Len(t)) :
        /\ \A j \in 1..(k - 1) : j <= Len(s) /\ s[j] = t[j]
        /\ k - 1 <= Len(s)
        /\ (k > Len(s) \/ s[k] < t[k])

\* min(m) and max(m) for a two-element list m = [a, b]
StrMin(a, b) == IF StrLess(b, a) THEN b ELSE a

StrMax(a, b) == IF StrLess(a, b) THEN b ELSE a

\* Variant of commonprefix that keeps the first differing character.
RECURSIVE ScanPrefixOffByOne(_, _, _)
ScanPrefixOffByOne(s1, s2, k) ==
    IF k > Len(s1) THEN s1
    ELSE IF s1[k] # s2[k] THEN SubSeq(s1, 1, k)
    ELSE ScanPrefixOffByOne(s1, s2, k + 1)

\* The loop of os.path.commonprefix over s1 = min(m), s2 = max(m):
\*   for i, c in enumerate(s1): if c != s2[i]: return s1[:i]
\*   return s1
RECURSIVE ScanPrefix(_, _, _)
ScanPrefix(s1, s2, k) ==
    IF k > Len(s1) THEN s1
    ELSE IF s1[k] # s2[k] THEN SubSeq(s1, 1, k - 1)
    ELSE ScanPrefix(s1, s2, k + 1)

commonprefixOffByOne(a, b) ==
    ScanPrefixOffByOne(StrMin(a, b), StrMax(a, b), 1)

commonprefix(a, b) == ScanPrefix(StrMin(a, b), StrMax(a, b), 1)

\* Variant of RubyReturn that does not look at the return code.
RubyReturnIgnoresCode(r) == Strip(r.stdout)

\* Lines 91-95 of generate_ruby: the value returned for a completed child.
RubyReturn(r) == IF r.returncode # 0 THEN None ELSE Strip(r.stdout)

\* Line 92: the error stream is printed when the child failed.
RubyDiag(r) == IF r.returncode # 0 THEN r.stderr ELSE None

\* Line 138: the analysis runs when both outputs are truthy.
BothPresent(py, rb) == Truthy(py) /\ Truthy(rb)

\* Lines 141-144: which line the analysis prints.
Verdict(prompt, cp) == IF Len(cp) > Len(prompt) THEN "agree" ELSE "diverge"

----------------------------------------------------------------------------
(* Initial state: the module has been imported, compare_outputs is entered *)

Init ==
    /\ pc = "loop"
    /\ i = 0
    /\ python_output = Unbound
    /\ ruby_output = Unbound
    /\ common_prefix = Unbound
    /\ ckpt = FALSE
    /\ calls = {}
    /\ children = 0
    /\ elapsed = 0
    /\ result = NoResult
    /\ diag = None
    /\ report = NoReport
    /\ exitCode = -1
    /\ pyAttempted = {}
    /\ rbAttempted = {}
    /\ aOutcome = "none"
    /\ bOutcome = "none"
    /\ pyFor = 0
    /\ rbFor = 0
    /\ interrupted = FALSE

----------------------------------------------------------------------------
(* compare_outputs: the loop head *)

\* Line 115: take the next prompt and call generate_python (line 121), or
\* leave the loop, return to __main__ and exit with status 0.
LoopNext ==
    /\ pc = "loop"
    /\ IF i < NumPrompts
       THEN /\ i' = i + 1
            /\ pc' = "py_check"
            /\ pyAttempted' = pyAttempted \cup {i + 1}
            /\ exitCode' = exitCode
            /\ calls' = {}
            /\ result' = NoResult
            /\ diag' = None
            /\ report' = NoReport
            /\ aOutcome' = "none"
            /\ bOutcome' = "none"
       ELSE /\ pc' = "done"
            /\ exitCode' = 0
            /\ UNCHANGED <<i, pyAttempted, calls, result, diag, report,
                           aOutcome, bOutcome>>
    /\ UNCHANGED <<python_output, ruby_output, common_prefix, ckpt, children,
                   elapsed, rbAttempted, pyFor, rbFor, interrupted>>

----------------------------------------------------------------------------
(* Exceptions.  Nothing in generate_python or compare_outputs catches, so  *)
(* an Exception raised there unwinds to the handler at line 160 and a      *)
(* KeyboardInterrupt to the handler at line 157.                           *)

\* An Exception leaves compare_outputs.
Unwind ==
    /\ pc' = "main_exc"
    /\ UNCHANGED <<i, python_output, ruby_output, common_prefix, children,
                   elapsed, result, diag, report, exitCode, pyAttempted,
                   rbAttempted, bOutcome, pyFor, rbFor, interrupted>>

----------------------------------------------------------------------------
(* generate_python *)

\* Variant of CheckpointMissing that raises instead of returning None.
CheckpointMissingRaises ==
    /\ aOutcome' = "missing"
    /\ calls' = calls
    /\ Unwind

\* Lines 29-31 when the checkpoint is absent: print, return None; back in
\* compare_outputs the None is bound (line 121) and "(failed)" printed.
CheckpointMissing ==
    /\ python_output' = None
    /\ pyFor' = i
    /\ aOutcome' = "missing"
    /\ pc' = "rb_call"
    /\ UNCHANGED <<i, ruby_output, common_prefix, calls, children, elapsed,
                   result, diag, report, exitCode, pyAttempted, rbAttempted,
                   bOutcome, rbFor, interrupted>>

\* Lines 28-31: the checkpoint test.
CheckCheckpoint ==
    /\ pc = "py_check"
    /\ \E e \in BOOLEAN :
        /\ ckpt' = e
        /\ IF e
           THEN /\ pc' = "py_tokenizer"
                /\ UNCHANGED <<i, python_output, ruby_output, common_prefix,
                               calls, children, elapsed, result, diag, report,
                               exitCode, pyAttempted, rbAttempted, aOutcome,
                               bOutcome, pyFor, rbFor, interrupted>>
           ELSE CheckpointMissing

\* One collaborator call of generate_python: it returns, or it raises.
Collaborator(at, name, next) ==
    /\ pc = at
    /\ calls' = calls \cup {name}
    /\ UNCHANGED ckpt
    /\ \/ /\ pc' = next
          /\ UNCHANGED <<i, python_output, ruby_output, common_prefix,
                         children, elapsed, result, diag, report, exitCode,
                         pyAttempted, rbAttempted, aOutcome, bOutcome, pyFor,
                         rbFor, interrupted>>
       \/ /\ aOutcome' = "raised"
          /\ Unwind

\* Line 34
GetTokenizer == Collaborator("py_tokenizer", "get_tokenizer", "py_model")

\* Line 37
FromCheckpoint == Collaborator("py_model", "GPT.from_checkpoint", "py_device")

\* Line 40
GetDevice == Collaborator("py_device", "get_device", "py_engine")

\* Line 41
NewEngine == Collaborator("py_engine", "Engine", "py_generate")

\* Lines 44-49: engine.generate returns a text, which compare_outputs binds
\* (line 121) and prints (lines 122-126); or it raises.
EngineGenerate ==
    /\ pc = "py_generate"
    /\ calls' = calls \cup {"engine.generate"}
    /\ UNCHANGED ckpt
    /\ \/ \E t \in GenTexts(test_prompts[i]) :
            /\ python_output' = t
            /\ pyFor' = i
            /\ aOutcome' = "returned"
            /\ pc' = "rb_call"
            /\ UNCHANGED <<i, ruby_output, common_prefix, children, elapsed,
                           result, diag, report, exitCode, pyAttempted,
                           rbAttempted, bOutcome, rbFor, interrupted>>
       \/ /\ aOutcome' = "raised"
          /\ Unwind

----------------------------------------------------------------------------
(* generate_ruby *)

TimedOutMsg == <<-3>>

ExecFailedMsg == <<-4>>

\* generate_ruby returns v; compare_outputs binds it (line 130) and prints
\* it or "(failed)" (lines 131-135).
RubyReturns(v, how, msg) ==
    /\ ruby_output' = v
    /\ rbFor' = i
    /\ bOutcome' = how
    /\ diag' = msg
    /\ pc' = "analysis"

\* Variant of RubySpawn that starts the child and does not wait for it.
RubySpawnDetached ==
    /\ pc = "rb_call"
    /\ rbAttempted' = rbAttempted \cup {i}
    /\ children' = children + 1
    /\ RubyReturns(None, "exception", ExecFailedMsg)
    /\ UNCHANGED <<i, python_output, common_prefix, ckpt, calls, result,
                   elapsed, report, exitCode, pyAttempted, aOutcome, pyFor,
                   interrupted>>

\* Line 130 and lines 53-85: generate_ruby is called, builds the script and
\* subprocess.run starts the child; if the child cannot be started the
\* OSError is caught at line 99.
RubySpawn ==
    /\ pc = "rb_call"
    /\ rbAttempted' = rbAttempted \cup {i}
    /\ \/ /\ children' = children + 1
          /\ elapsed' = 0
          /\ pc' = "rb_wait"
          /\ UNCHANGED <<ruby_output, rbFor, bOutcome, diag>>
       \/ /\ RubyReturns(None, "exception", ExecFailedMsg)
          /\ UNCHANGED <<children, elapsed>>
    /\ UNCHANGED <<i, python_output, common_prefix, ckpt, calls, result,
                   report, exitCode, pyAttempted, aOutcome, pyFor, interrupted>>

\* One time unit passes while subprocess.run waits for the child.
RubyTick ==
    /\ pc = "rb_wait"
    /\ elapsed < Timeout
    /\ elapsed' = elapsed + 1
    /\ UNCHANGED <<pc, i, python_output, ruby_output, common_prefix, ckpt,
                   calls, children, result, diag, report, exitCode,
                   pyAttempted, rbAttempted, aOutcome, bOutcome, pyFor, rbFor,
                   interrupted>>

\* The child exits before the timeout; subprocess.run returns the
\* CompletedProcess (line 84).
RubyExit ==
    /\ pc = "rb_wait"
    /\ elapsed < Timeout
    /\ \E rc \in ReturnCodes, out \in Stdouts(test_prompts[i]), err \in Stderrs :
        result' = [returncode |-> rc, stdout |-> out, stderr |-> err]
    /\ children' = children - 1
    /\ elapsed' = 0
    /\ pc' = "rb_result"
    /\ UNCHANGED <<i, python_output, ruby_output, common_prefix, ckpt, calls,
                   diag, report, exitCode, pyAttempted, rbAttempted,
                   aOutcome, bOutcome, pyFor, rbFor, interrupted>>

\* Variant of RubyTimeout that abandons the child without killing it.
RubyTimeoutNoKill ==
    /\ pc = "rb_wait"
    /\ elapsed = Timeout
    /\ children' = children
    /\ RubyReturns(None, "timeout", TimedOutMsg)
    /\ elapsed' = 0
    /\ UNCHANGED <<i, python_output, common_prefix, ckpt, calls,
                   result, report, exitCode, pyAttempted, rbAttempted,
                   aOutcome, pyFor, interrupted>>

\* The timeout expires: subprocess.run kills the child, waits for it and
\* raises TimeoutExpired, caught at lines 96-98.
RubyTimeout ==
    /\ pc = "rb_wait"
    /\ elapsed = Timeout
    /\ children' = children - 1
    /\ RubyReturns(None, "timeout", TimedOutMsg)
    /\ elapsed' = 0
    /\ UNCHANGED <<i, python_output, common_prefix, ckpt, calls,
                   result, report, exitCode, pyAttempted, rbAttempted,
                   aOutcome, pyFor, interrupted>>

\* subprocess.run fails while the child runs (its output does not decode):
\* it kills the child and raises; caught at lines 99-101.
RubyExecFailed ==
    /\ pc = "rb_wait"
    /\ children' = children - 1
    /\ RubyReturns(None, "exception", ExecFailedMsg)
    /\ elapsed' = 0
    /\ UNCHANGED <<i, python_output, common_prefix, ckpt, calls,
                   result, report, exitCode, pyAttempted, rbAttempted,
                   aOutcome, pyFor, interrupted>>

\* Lines 91-95: the return code decides between None and the stripped
\* standard output.
RubyResult ==
    /\ pc = "rb_result"
    /\ RubyReturns(RubyReturn(result),
                   IF result.returncode # 0 THEN "nonzero" ELSE "success",
                   RubyDiag(result))
    /\ UNCHANGED <<i, python_output, common_prefix, ckpt, calls, children,
                   elapsed, result, report, exitCode, pyAttempted,
                   rbAttempted, aOutcome, pyFor, interrupted>>

----------------------------------------------------------------------------
(* compare_outputs: the analysis block *)

\* Lines 138-152
Analysis ==
    /\ pc = "analysis"
    /\ IF BothPresent(python_output, ruby_output)
       THEN LET cp == commonprefix(python_output, ruby_output)
            IN  /\ common_prefix' = cp
                /\ report' = [verdict |-> Verdict(test_prompts[i], cp),
                              pyLen   |-> Len(python_output),
                              rbLen   |-> Len(ruby_output)]
       ELSE UNCHANGED <<common_prefix, report>>
    /\ pc' = "loop"
    /\ UNCHANGED <<i, python_output, ruby_output, ckpt, calls, children,
                   elapsed, result, diag, exitCode, pyAttempted, rbAttempted,
                   aOutcome, bOutcome, pyFor, rbFor, interrupted>>

----------------------------------------------------------------------------
(* __main__ *)

\* Where the thread of control is inside compare_outputs.
Running == pc \notin {"done", "main_kbd", "main_exc"}

\* Variant of KeyboardInterrupt in which generate_ruby catches the
\* interrupt like any other failure (a bare "except:") and returns None.
KeyboardInterruptSwallowed ==
    /\ Running
    /\ interrupted' = TRUE
    /\ children' = IF pc = "rb_wait" THEN children - 1 ELSE children
    /\ elapsed' = 0
    /\ IF pc \in {"rb_wait", "rb_result"}
       THEN /\ RubyReturns(None, "exception", ExecFailedMsg)
            /\ UNCHANGED <<i, python_output, common_prefix, ckpt, calls,
                           result, report, exitCode, pyAttempted,
                           rbAttempted, aOutcome, pyFor>>
       ELSE /\ pc' = "main_kbd"
            /\ UNCHANGED <<i, python_output, ruby_output, common_prefix,
                           ckpt, calls, result, diag, report, exitCode,
                           pyAttempted, rbAttempted, aOutcome, bOutcome,
                           pyFor, rbFor>>

\* The user interrupts.  Inside subprocess.run the child is killed before
\* the KeyboardInterrupt is re-raised; "except Exception" (line 99) does
\* not catch it, so it unwinds to the handler at line 157.
KeyboardInterrupt ==
    /\ Running
    /\ interrupted' = TRUE
    /\ children' = IF pc = "rb_wait" THEN children - 1 ELSE children
    /\ elapsed' = 0
    /\ pc' = "main_kbd"
    /\ UNCHANGED <<i, python_output, ruby_output, common_prefix, ckpt, calls,
                   result, diag, report, exitCode, pyAttempted,
                   rbAttempted, aOutcome, bOutcome, pyFor, rbFor>>

\* Lines 157-159
ExceptKeyboardInterrupt ==
    /\ pc = "main_kbd"
    /\ exitCode' = 1
    /\ pc' = "done"
    /\ UNCHANGED <<i, python_output, ruby_output, common_prefix, ckpt, calls,
                   children, elapsed, result, diag, report, pyAttempted,
                   rbAttempted, aOutcome, bOutcome, pyFor, rbFor, interrupted>>

\* Lines 160-164
ExceptException ==
    /\ pc = "main_exc"
    /\ exitCode' = 1
    /\ pc' = "done"
    /\ UNCHANGED <<i, python_output, ruby_output, common_prefix, ckpt, calls,
                   children, elapsed, result, diag, report, pyAttempted,
                   rbAttempted, aOutcome, bOutcome, pyFor, rbFor, interrupted>>

----------------------------------------------------------------------------

Next ==
    \/ LoopNext
    \/ CheckCheckpoint
    \/ GetTokenizer
    \/ FromCheckpoint
    \/ GetDevice
    \/ NewEngine
    \/ EngineGenerate
    \/ RubySpawn
    \/ RubyTick
    \/ RubyExit
    \/ RubyTimeout
    \/ RubyExecFailed
    \/ RubyResult
    \/ Analysis
    \/ KeyboardInterrupt
    \/ ExceptKeyboardInterrupt
    \/ ExceptException

Spec == Init /\ [][Next]_vars

----------------------------------------------------------------------------
(* Properties *)

AllPrompts == 1..NumPrompts

\* The current prompt has been through the analysis block.
Analysed == pc = "loop" /\ i >= 1

\* Length of the longest common leading substring of a and b, character by
\* character: the largest k within both strings with a[j] = b[j] up to k.
CommonPrefixLen(a, b) ==
    SetMax({k \in 0..(IF Len(a) < Len(b) THEN Len(a) ELSE Len(b)) :
               \A j \in 1..k : a[j] = b[j]})

\* C1: whenever a collaborator call of generate_python raises, the
\* exception is contained in the prompt's step: control does not reach the
\* top-level handler, Python's result for the prompt is None, and unless
\* the user interrupts the run does not exit with status 1 and ends with
\* both generators attempted for every prompt.
C1_PythonFailureContained ==
    aOutcome = "raised" =>
        /\ pc # "main_exc"
        /\ python_output = None
        /\ pyFor = i
        /\ ~interrupted => exitCode # 1
        /\ (pc = "done" /\ ~interrupted) =>
               (pyAttempted = AllPrompts /\ rbAttempted = AllPrompts)

\* C2: when the checkpoint is missing, generate_python yields None for the
\* prompt without calling a collaborator and without raising, and
\* generate_ruby is then called for the same prompt (unless the user
\* interrupts first).
C2_MissingCheckpoint ==
    aOutcome = "missing" =>
        /\ ~ckpt
        /\ python_output = None
        /\ pyFor = i
        /\ calls = {}
        /\ pc \in {"rb_call", "rb_wait", "rb_result", "analysis", "loop",
                   "done", "main_kbd"}
        /\ (pc # "rb_call" /\ ~interrupted) => i \in rbAttempted

C2_Witness ==
    /\ aOutcome = "missing"
    /\ i = 2
    /\ pc = "analysis"
    /\ python_output = None
    /\ 2 \in rbAttempted
    /\ bOutcome = "success"

\* C3: a run that the user does not interrupt ends with exit status 0 and
\* with both generators attempted for every prompt.
C3_FullPassWithoutInterrupt ==
    (pc = "done" /\ ~interrupted) =>
        /\ exitCode = 0
        /\ pyAttempted = AllPrompts
        /\ rbAttempted = AllPrompts

\* C4: after the analysis of a prompt for which neither result is None,
\* the agreement line is printed iff the common prefix is longer than the
\* prompt, and the divergence line is printed otherwise.
C4_AgreementIffLongerThanPrompt ==
    (Analysed /\ python_output # None /\ ruby_output # None) =>
        LET k == CommonPrefixLen(python_output, ruby_output)
            n == Len(test_prompts[i])
        IN  /\ report.verdict = "agree" <=> k > n
            /\ k <= n => report.verdict = "diverge"

\* C5: the process exits with 0 exactly when the loop ran to its end and
\* with 1 exactly when a KeyboardInterrupt or an Exception reached
\* __main__; once the user has interrupted, control is in the top-level
\* handler or the process has ended, no child is alive, and no further
\* prompt is taken or generator called.
C5_ExitStatus ==
    /\ [](pc = "done" =>
            /\ exitCode \in {0, 1}
            /\ exitCode = 1 <=> (interrupted \/ aOutcome = "raised")
            /\ exitCode = 0 <=>
                  (~interrupted /\ aOutcome # "raised" /\ i = NumPrompts
                     /\ rbFor = NumPrompts))
    /\ [](pc # "done" => exitCode = -1)
    /\ [](interrupted => (pc \in {"main_kbd", "done"} /\ children = 0))
    /\ [][interrupted =>
            UNCHANGED <<i, pyAttempted, rbAttempted, python_output,
                        ruby_output, report>>]_vars

C5_Witness ==
    /\ pc = "done"
    /\ exitCode = 1
    /\ interrupted
    /\ i = 2
    /\ rbAttempted = {1, 2}
    /\ rbFor = 1
    /\ children = 0

\* C6: for a child that ran to completion, generate_ruby returns the
\* child's standard output (stripped) only if the return code is 0; for a
\* non-zero return code it returns None whatever the standard output was,
\* and the error stream is printed and is not the result.
C6_StdoutOnlyOnSuccess ==
    (rbFor = i /\ bOutcome \in {"success", "nonzero"}) =>
        /\ bOutcome = "success" <=> result.returncode = 0
        /\ result.returncode # 0 => (ruby_output = None /\ diag = result.stderr)
        /\ result.returncode = 0 =>
               (ruby_output = Strip(result.stdout) /\ diag = None)
        /\ ruby_output # None => result.returncode = 0

C6_Witness ==
    /\ bOutcome = "nonzero"
    /\ result.returncode = 2
    /\ result.stdout = test_prompts[1] \o <<97, 10>>
    /\ result.stderr = <<69>>
    /\ ruby_output = None
    /\ diag = <<69>>

\* C7: when the child exceeds the timeout, Ruby's result for the prompt is
\* None and the child is not alive once generate_ruby has returned; never
\* are two children alive; and unless the user interrupts, the run goes on
\* to the analysis and then to the next prompt.
C7_TimeoutLeavesNoChild ==
    /\ [](children <= 1)
    /\ [](pc # "rb_wait" => children = 0)
    /\ [](bOutcome = "timeout" =>
            /\ ruby_output = None
            /\ rbFor = i
            /\ pc \in {"analysis", "loop", "done", "main_kbd"})
    /\ [][(bOutcome = "timeout" /\ ~interrupted') =>
            /\ pc = "analysis" => pc' = "loop"
            /\ (pc = "loop" /\ i < NumPrompts) =>
                   (i' = i + 1 /\ pc' = "py_check" /\ (i + 1) \in pyAttempted')
            /\ (pc = "loop" /\ i = NumPrompts) => exitCode' = 0]_vars

C7_Witness ==
    /\ bOutcome = "timeout"
    /\ i = 1
    /\ pc = "loop"
    /\ ruby_output = None
    /\ children = 0

\* C8: after the analysis of a prompt, the analysis lines were printed iff
\* neither result is None (a text of any length, the empty one included,
\* being a result), and when printed they carry both lengths.
C8_AnalysisIffBothPresent ==
    Analysed =>
        /\ report.verdict # "none" <=>
               (python_output # None /\ ruby_output # None)
        /\ report.verdict # "none" =>
               /\ report.pyLen = Len(python_output)
               /\ report.rbLen = Len(ruby_output)

\* C9: prompts are taken in list order one at a time; generate_python has
\* returned for the current prompt before generate_ruby starts its child,
\* a child is alive only inside generate_ruby, generate_ruby has returned
\* before the analysis, and the analysis of a prompt reads the two results
\* bound for that same prompt.
C9_Sequential ==
    /\ [](pyAttempted = 1..i)
    /\ [](rbAttempted \in {1..i, 1..(i - 1)})
    /\ [](children > 0 => pc = "rb_wait")
    /\ [](pc \in {"rb_call", "rb_wait", "rb_result", "analysis"} =>
            (pyFor = i /\ aOutcome \in {"missing", "returned"}))
    /\ [](pc \in {"rb_wait", "rb_result", "analysis"} => i \in rbAttempted)
    /\ [](pc = "analysis" => (rbFor = i /\ bOutcome # "none"))
    /\ [](report.verdict # "none" =>
            /\ pyFor = i /\ rbFor = i
            /\ report.pyLen = Len(python_output)
            /\ report.rbLen = Len(ruby_output))
    /\ [][i' \in {i, i + 1}]_vars
    /\ [][i' = i + 1 => (i = 0 \/ (pyFor = i /\ rbFor = i))]_vars

C9_Witness ==
    /\ pc = "analysis"
    /\ i = 3
    /\ pyFor = 3
    /\ rbFor = 3
    /\ python_output \in GenTexts(test_prompts[3])
    /\ ruby_output \in GenTexts(test_prompts[3])
    /\ ruby_output # <<>>

\* C10: the common prefix the analysis computed is the longest leading
\* substring the two results share, the same in either argument order; for
\* identical results it is the whole result, and identical results longer
\* than the prompt are reported as agreeing with equal lengths.
C10_CommonPrefix ==
    (Analysed /\ report.verdict # "none") =>
        LET a == python_output
            b == ruby_output
            k == Len(common_prefix)
        IN  /\ k = CommonPrefixLen(a, b)
            /\ common_prefix = SubSeq(a, 1, k)
            /\ common_prefix = SubSeq(b, 1, k)
            /\ (k < Len(a) /\ k < Len(b)) => a[k + 1] # b[k + 1]
            /\ commonprefix(b, a) = common_prefix
            /\ a = b => k = Len(a)
            /\ (a = b /\ Len(a) > Len(test_prompts[i])) =>
                   (report.verdict = "agree" /\ report.pyLen = report.rbLen)

C10_Witness ==
    /\ Analysed
    /\ report.verdict = "diverge"
    /\ python_output # ruby_output
    /\ Len(python_output) > Len(test_prompts[i])
    /\ Len(ruby_output) > Len(test_prompts[i])
    /\ Len(common_prefix) = Len(test_prompts[i])

====
